---- MODULE Spec2Model ----
(***************************************************************************)
(* Laser Timer (bullseye): the calibration / hit-detection / scoring core. *)
(*                                                                         *)
(* Two builds of the program share this model, selected by `variant`:      *)
(*   "auto"   - src/main.js: ArUco / square-fallback calibration on a      *)
(*              60 ms interval timer, persistent H;                        *)
(*   "manual" - src/unnamed/part_000: four-corner tap calibration.         *)
(*                                                                         *)
(* Time is performance.now() in milliseconds.  A camera frame is reduced   *)
(* to its opened red mask, given as the set of the disjoint red regions    *)
(* (Regions) that are lit in it; each region has a contour area and a      *)
(* centroid in processing-canvas pixels.  A Homography is represented by   *)
(* the source quadrilateral <<tl, tr, br, bl>> handed to                   *)
(* cv.getPerspectiveTransform (the destination is always the warpSize      *)
(* rectangle).                                                             *)
(*                                                                         *)
(* Callbacks registered with requestVideoFrameCallback are run together    *)
(* when the next video frame is presented (frameReady), one after the      *)
(* other (frameCallback), each drawing that frame.  Time advances between  *)
(* frames and over the countdown; handlers take no time.                   *)
(*                                                                         *)
(* Spec follows both builds from page load; SpecMatch a single game with a *)
(* goal of three shots; SpecStale a session of the auto build whose        *)
(* calibration is stale and SpecSeek one that was never calibrated;        *)
(* SpecScore the ScoreEngine alone; SpecDetect the temporal differ and the *)
(* blob selector of detectTransientRed alone; SpecTaps the manual          *)
(* calibration handlers alone.                                             *)
(***************************************************************************)
EXTENDS Integers, Sequences, FiniteSets, Bags, TLC

VARIABLES
  variant,          \* which build is running: "auto" | "manual"
  now,              \* performance.now()
  cvReady,          \* main.js:2
  running,          \* main.js:2
  H,                \* main.js:3   NoH or the source quad of the transform
  liveMats,         \* Homography Mats created by cv.getPerspectiveTransform
                    \*   on which delete() has not been called
  Hreleased,        \* H refers to a Mat on which delete() has been called
  lastHTime,        \* main.js:3   (auto)
  lossStreak,       \* main.js:5   (auto)
  shotsFired,       \* main.js:4
  totalScore,       \* main.js:4
  gameShots,        \* main.js:4
  lastHitTs,        \* main.js:4
  calibTimer,       \* main.js:5   NoTimer or the id of an interval timer (auto)
  timers,           \* the browser's set of active interval timers (auto)
  prevMask,         \* main.js:6   NoMask or the previous frame's mask
  liveMasks,        \* mask clones made for prevMask on which delete() has not
                    \*   been called
  calibrationMode,  \* part_000:24 (manual)
  calibPoints,      \* part_000:25 (manual)
  status,           \* text of #status
  countingDown,     \* startFlow activations suspended in countdown(10): the
                    \*   times at which their countdowns began, oldest first
  rvfcQueue,        \* frame callbacks registered for the next video frame
  batch,            \* callbacks of the frame being delivered, still to run
  frame,            \* opened red mask of the video frame last presented
  playing,          \* the camera stream is attached to the video element
  landed,           \* history: squared target distances of the HitEvents
                    \*   emitted since SessionStats were last zeroed (a bag)
  evLast,           \* history: timestamp of the last emitted HitEvent, or -1
  summaries,        \* session-end summaries scheduled (setTimeout(...,80)) since
                    \*   the last game start
  alerts,           \* session-end summaries scheduled and not yet shown: the
                    \*   times at which their timeouts expire, oldest first
  shown,            \* NoSummary, or <<Total, Avg>> of the summary alert last
                    \*   shown, Avg in tenths as toFixed(1) prints it
  flashHits,        \* history: HitEvents emitted over the current run of
                    \*   consecutive processed frames that show red, with a
                    \*   Homography published and the session running
  probe             \* a function under test on its own: NoProbe, or <<in>>
                    \*   for its argument, or <<in, out>> once the call has
                    \*   returned (ScoreEngine: a target-plane point p and
                    \*   scoreBullseye(p))

vars == <<variant, now, cvReady, running, H, liveMats, Hreleased, lastHTime, lossStreak, shotsFired,
          totalScore, gameShots, lastHitTs, calibTimer, timers, prevMask, liveMasks,
          calibrationMode, calibPoints, status, countingDown,
          rvfcQueue, batch, frame, playing, landed, evLast, summaries, alerts, shown,
          flashHits, probe>>

----------------------------------------------------------------------------
(* Bounds of the model *)

\* startFlow activations that may be suspended at once
MaxFlows == 2
\* frame periods of play explored after the first countdown can end
PlayTicks == 4
\* frame periods explored of a game started by a single activation
MatchTicks == 6
\* frame periods explored of a session whose calibration has gone stale
StaleTicks == 4
\* ScoreEngine probes: offsets from the centre are taken up to ProbeSpan
\* steps of (3, 4) pixels, so that the distances 5, 10, ... are exact
ProbeSpan == 100

----------------------------------------------------------------------------
(* Program constants *)

DebounceMs == 120
StaleMs == 2000
LossFlag == 60
CountdownMs == 10500
DefaultShots == 10
AlertDelayMs == 80
WarpW == 900
WarpH == 1200
CenterX == 450
CenterY == 600
\* overlay.width / proc.width: display pixels per processing pixel
ScaleXY == 2

NoH == <<>>
\* prevMask is NoMask (null) or <<mask>>
NoMask == <<>>
NoPt == <<>>
NoTimer == 0
NoProbe == <<>>
NoSummary == <<>>

\* BULLSEYE.rings, BULLSEYE.points
Rings == <<120, 220, 320, 420>>
Points == <<10, 9, 8, 7, 6>>

----------------------------------------------------------------------------
(* Inputs *)

\* elapsed time between two presented video frames: one frame period, or
\* two (a dropped frame, or the page blocked by a dialog)
Deltas == {75, 150}
\* the clock values at which exploration stops
MaxTime == CountdownMs + PlayTicks * 75
MatchTime == CountdownMs + MatchTicks * 75

\* values offered by #gameSelect
GameChoices == {1}
MatchGoals == {3}
\* values of #sens and #minArea
SensChoices == {18}
MinAreaChoices == {16}

\* disjoint patches of pixels a frame may show as red, with the contour area
\* and the centroid (processing px) each has as a component of the diff mask.
\* A mask is the set of the patches lit in it: {1, 2} after {1} is a flash
\* that has grown by patch 2.
Regions == {1, 2, 3, 4}
RegionArea(r) == CASE r = 1 -> 50 [] r = 2 -> 80 [] r = 4 -> 80 [] OTHER -> 30
RegionCentroid(r) ==
  CASE r = 1 -> <<240, 320>> [] r = 2 -> <<300, 400>> [] r = 4 -> <<100, 200>>
    [] OTHER -> <<375, 500>>
\* masks of the frames the camera may deliver
Masks == {{}, {1}, {1, 2}}
MatchMasks == {{}, {1}, {2}, {3}}

\* markers a calibration frame may show (processing px): one at the top-left
\* and one at the bottom-right corner of the target, four corners each
SceneMarkers ==
  << << <<0, 0>>, <<50, 0>>, <<50, 50>>, <<0, 50>> >>,
     << <<400, 550>>, <<450, 550>>, <<450, 600>>, <<400, 600>> >> >>
\* corners.size() of a calibration frame: the first n markers are detected
MarkerCounts == 1 .. Len(SceneMarkers)

\* square candidates a calibration frame may show (processing px), as pushed
\* to cand: one at each corner of the target and a smaller one inside it
SceneSquares ==
  << [area |-> 400, p |-> << <<0, 0>>, <<20, 0>>, <<20, 20>>, <<0, 20>> >>],
     [area |-> 900, p |-> << <<420, 0>>, <<450, 0>>, <<450, 30>>, <<420, 30>> >>],
     [area |-> 324, p |-> << <<200, 250>>, <<218, 250>>, <<218, 268>>, <<200, 268>> >>],
     [area |-> 625, p |-> << <<425, 575>>, <<450, 575>>, <<450, 600>>, <<425, 600>> >>],
     [area |-> 484, p |-> << <<0, 578>>, <<22, 578>>, <<22, 600>>, <<0, 600>> >>] >>
\* cand.length of a calibration frame: the first n candidates are found
SquareCounts == {3, 5}

\* corners of the target as the user may tap them (overlay px), clockwise
TapCorners == << <<0, 0>>, <<900, 0>>, <<900, 1200>>, <<0, 1200>> >>

----------------------------------------------------------------------------
(* ScoreEngine *)

\* squared distance of a target-plane point from BULLSEYE.center
Dist2(p) == (p[1] - CenterX) * (p[1] - CenterX) + (p[2] - CenterY) * (p[2] - CenterY)

\* the for-loop of scoreBullseye from index i: d <= r[i], on squared values
\* the loop with the comparison d < r[i]
RECURSIVE ringLoopStrict(_, _)
ringLoopStrict(d2, i) ==
  IF i > Len(Rings) THEN Points[Len(Points)]
  ELSE IF d2 < Rings[i] * Rings[i] THEN Points[i]
  ELSE ringLoopStrict(d2, i + 1)

RECURSIVE ringLoop(_, _)
ringLoop(d2, i) ==
  IF i > Len(Rings) THEN Points[Len(Points)]
  ELSE IF d2 <= Rings[i] * Rings[i] THEN Points[i]
  ELSE ringLoop(d2, i + 1)

\* the score taken from the horizontal offset alone
scoreByX(p) == ringLoop((p[1] - CenterX) * (p[1] - CenterX), 1)

scoreBullseye(p) == ringLoop(Dist2(p), 1)

----------------------------------------------------------------------------
(* Projector: cv.perspectiveTransform(sp, H) *)

\* The transform of a parallelogram source quad onto the warpSize rectangle
\* is affine: p = tl + a (tr - tl) + b (bl - tl)  |->  (a W, b H).
QuadDet(q) ==
  (q[2][1] - q[1][1]) * (q[4][2] - q[1][2]) - (q[2][2] - q[1][2]) * (q[4][1] - q[1][1])

perspectiveTransform(q, p) ==
  LET ux == q[2][1] - q[1][1]
      uy == q[2][2] - q[1][2]
      vx == q[4][1] - q[1][1]
      vy == q[4][2] - q[1][2]
      px == p[1] - q[1][1]
      py == p[2] - q[1][2]
      det == QuadDet(q)
  IN  << ((px * vy - py * vx) * WarpW) \div det,
         ((ux * py - uy * px) * WarpH) \div det >>

----------------------------------------------------------------------------
(* Hit detection *)

\* the contour loop of detectTransientRed over the components of the diff
\* mask, in traversal order; returns the centroid kept in pt
\* the loop keeping a component that is at least as large as the best so far
RECURSIVE blobLoopLast(_, _, _, _, _, _)
blobLoopLast(contours, i, sens, minA, best, pt) ==
  IF i > Len(contours) THEN pt
  ELSE LET a == RegionArea(contours[i])
       IN IF a > minA /\ a > sens /\ a >= best
          THEN blobLoopLast(contours, i + 1, sens, minA, a, RegionCentroid(contours[i]))
          ELSE blobLoopLast(contours, i + 1, sens, minA, best, pt)

RECURSIVE blobLoop(_, _, _, _, _, _)
blobLoop(contours, i, sens, minA, best, pt) ==
  IF i > Len(contours) THEN pt
  ELSE LET a == RegionArea(contours[i])
       IN IF a > minA /\ a > sens /\ a > best
          THEN blobLoop(contours, i + 1, sens, minA, a, RegionCentroid(contours[i]))
          ELSE blobLoop(contours, i + 1, sens, minA, best, pt)

\* components of a mask in traversal order
RECURSIVE contoursOf(_)
contoursOf(mask) ==
  IF mask = {} THEN <<>>
  ELSE LET r == CHOOSE r \in mask : \A s \in mask : r <= s
       IN <<r>> \o contoursOf(mask \ {r})

\* the value (0 or 255) a mask has on the pixels of patch r
maskValue(mask, r) == IF r \in mask THEN 255 ELSE 0

\* a difference of pixel values reduced modulo 256
saturateWrap(v) == v % 256

\* saturate_cast<uchar> of a difference of pixel values
saturate(v) == IF v < 0 THEN 0 ELSE IF v > 255 THEN 255 ELSE v

\* cv.subtract(combined, prevMask, pos) on 0/255 masks: the patches on which
\* pos is non-zero
subtractMask(combined, prev) ==
  {r \in Regions : saturate(maskValue(combined, r) - maskValue(prev, r)) # 0}

\* prevMask = combined.clone() without the delete before it
storeMaskLeaking(prev, live) == live + 1

\* if(prevMask) prevMask.delete(); prevMask = combined.clone(): the count of
\* live clones afterwards
storeMask(prev, live) == (IF prev # NoMask THEN live - 1 ELSE live) + 1

\* the value returned by detectTransientRed (prevMask is stored by the caller)
detectTransientRed(prev, combined, sens, minA) ==
  IF prev = NoMask THEN NoPt
  ELSE blobLoop(contoursOf(subtractMask(combined, prev[1])), 1, sens, minA, 0, NoPt)

----------------------------------------------------------------------------
(* Calibration (auto): ArUco markers or square fallback *)

\* text of #status: kind, the ${res.count} shown, and the state word
Status(kind, count, state) == [kind |-> kind, count |-> count, state |-> state]
StatusNone == Status("", 0, "")

\* sum and dif of hullHomography, negated for the two max-reductions
hullKey(k, p) ==
  CASE k = "sum" -> p[1] + p[2]
    [] k = "-sum" -> 0 - (p[1] + p[2])
    [] k = "dif" -> p[1] - p[2]
    [] OTHER -> 0 - (p[1] - p[2])

\* pts.reduce((a,b) => key(a) < key(b) ? a : b) continued from index i
RECURSIVE hullReduce(_, _, _, _)
hullReduce(k, pts, i, a) ==
  IF i > Len(pts) THEN a
  ELSE hullReduce(k, pts, i + 1,
                  IF hullKey(k, a) < hullKey(k, pts[i]) THEN a ELSE pts[i])

hullHomography(pts) ==
  IF Len(pts) < 4 THEN [H |-> NoH, count |-> 0]
  ELSE LET tl == hullReduce("sum", pts, 2, pts[1])
           br == hullReduce("-sum", pts, 2, pts[1])
           tr == hullReduce("dif", pts, 2, pts[1])
           bl == hullReduce("-dif", pts, 2, pts[1])
       IN [H |-> <<tl, tr, br, bl>>, count |-> 4]

\* a point of the processing canvas in video pixels
scalePt(p) == <<p[1] * ScaleXY, p[2] * ScaleXY>>

\* the corners of the quads quads[i..n], scaled, in order
RECURSIVE cornersFrom(_, _, _)
cornersFrom(quads, i, n) ==
  IF i > n THEN <<>>
  ELSE << scalePt(quads[i][1]), scalePt(quads[i][2]),
          scalePt(quads[i][3]), scalePt(quads[i][4]) >> \o cornersFrom(quads, i + 1, n)

\* marker detection that asks for three markers
detectMarkersNeedThree(count) ==
  IF count < 3 THEN [H |-> NoH, count |-> count]
  ELSE hullHomography(cornersFrom(SceneMarkers, 1, count))

\* count = corners.size() markers were detected (0 when there is no detector)
detectMarkersAndHomography(count) ==
  IF count < 2 THEN [H |-> NoH, count |-> count]
  ELSE hullHomography(cornersFrom(SceneMarkers, 1, count))

\* cand.sort((a,b) => b.area - a.area): stable, descending by area
RECURSIVE sortByArea(_)
sortByArea(cand) ==
  IF cand = <<>> THEN <<>>
  ELSE LET i == CHOOSE i \in 1 .. Len(cand) :
                  /\ \A j \in 1 .. Len(cand) : cand[j].area <= cand[i].area
                  /\ \A j \in 1 .. (i - 1) : cand[j].area < cand[i].area
       IN <<cand[i]>> \o sortByArea(SubSeq(cand, 1, i - 1) \o SubSeq(cand, i + 1, Len(cand)))

\* n = cand.length square candidates were found
detectSquaresHomography(n) ==
  LET sorted == sortByArea(SubSeq(SceneSquares, 1, n))
      four == SubSeq(sorted, 1, IF Len(sorted) < 4 THEN Len(sorted) ELSE 4)
  IN IF Len(four) < 4 THEN [H |-> NoH, count |-> Len(four)]
     ELSE hullHomography(cornersFrom([k \in 1 .. 4 |-> four[k].p], 1, 4))

\* the interval callback with the sqFallback checkbox not consulted
tickResultForced(count, fb, n) ==
  LET res == detectMarkersAndHomography(count)
  IN IF res.H = NoH
     THEN LET sq == detectSquaresHomography(n)
          IN [H |-> sq.H,
              status |-> IF sq.H # NoH THEN Status("squares", 0, "calibrated")
                         ELSE Status("squares", 0, "seeking")]
     ELSE [H |-> res.H, status |-> Status("markers", res.count, "calibrated")]

\* the result and the status text of one interval callback
\* (count markers, sqFallback checkbox fb, n square candidates)
tickResult(count, fb, n) ==
  LET res == detectMarkersAndHomography(count)
  IN IF res.H = NoH /\ fb
     THEN LET sq == detectSquaresHomography(n)
          IN [H |-> sq.H,
              status |-> IF sq.H # NoH THEN Status("squares", 0, "calibrated")
                         ELSE Status("squares", 0, "seeking")]
     ELSE [H |-> res.H,
           status |-> Status("markers", res.count,
                             IF res.H # NoH THEN "calibrated" ELSE "seeking")]

\* an interval callback that publishes whatever it obtained
publishesAlways(res) == TRUE

\* whether an interval callback publishes its result (main.js:82)
publishes(res) == res.H # NoH

----------------------------------------------------------------------------
(* State after script load and init() *)

\* the globals as declared and what init() leaves
Constructed ==
  /\ now = 0
  /\ cvReady = FALSE
  /\ running = FALSE
  /\ H = NoH
  /\ liveMats = 0
  /\ Hreleased = FALSE
  /\ lastHTime = 0
  /\ lossStreak = 0
  /\ shotsFired = 0
  /\ totalScore = 0
  /\ gameShots = DefaultShots
  /\ lastHitTs = 0
  /\ calibTimer = NoTimer
  /\ timers = {}
  /\ prevMask = NoMask
  /\ liveMasks = 0
  /\ calibrationMode = FALSE
  /\ calibPoints = <<>>
  /\ status = StatusNone
  /\ countingDown = <<>>
  /\ rvfcQueue = 0
  /\ batch = 0
  /\ frame = {}
  /\ playing = FALSE
  /\ landed = EmptyBag
  /\ evLast = -1
  /\ summaries = 0
  /\ alerts = <<>>
  /\ shown = NoSummary
  /\ flashHits = 0

Init ==
  /\ variant \in {"auto", "manual"}
  /\ Constructed
  /\ probe = NoProbe

auxVars == <<variant, probe, flashHits>>
calibVars == <<H, liveMats, Hreleased, lastHTime, lossStreak, calibTimer, timers, calibrationMode, calibPoints>>
statVars == <<shotsFired, totalScore, lastHitTs, landed, evLast>>
loopVars ==
  <<running, rvfcQueue, batch, frame, summaries, alerts, shown, prevMask, liveMasks>>
flowVars == <<countingDown, playing>>

----------------------------------------------------------------------------
(* Time *)

\* the ten 1000 ms sleeps and the 500 ms sleep of a countdown pass
countdownSleeps(horizon) ==
  /\ batch = 0
  /\ now + CountdownMs <= horizon
  /\ now' = now + CountdownMs
  /\ UNCHANGED <<auxVars, cvReady, gameShots, status, calibVars, statVars, loopVars, flowVars>>

----------------------------------------------------------------------------
(* Start-up and startFlow *)

\* cv.onRuntimeInitialized
onOpenCvReady ==
  /\ batch = 0
  /\ ~cvReady
  /\ cvReady' = TRUE
  /\ UNCHANGED <<auxVars, now, gameShots, status, calibVars, statVars, loopVars, flowVars>>

\* setInterval handle given to a new timer
newTimer(active) == CHOOSE t \in 1 .. (Cardinality(active) + 1) : t \notin active

\* startCalibration() without the clearInterval
startCalibrationNoClear(ct, active) ==
  LET t == newTimer(active)
  IN [calibTimer |-> t, timers |-> active \cup {t}]

\* startCalibration(): the timers left active and the new calibTimer
startCalibration(ct, active) ==
  LET cleared == IF ct # NoTimer THEN active \ {ct} ELSE active
      t == newTimer(cleared)
  IN [calibTimer |-> t, timers |-> cleared \cup {t}]

\* #startBtn click up to countdown(10): returns at once unless cvReady and
\* not running; the camera is granted (calibration starts in the auto build
\* and the activation suspends in the countdown) or refused (alert, return).
\* Nothing that is modelled is read or written between the awaits that
\* precede startCalibration, so they are taken in one step.  An activation
\* whose countdown would end past the horizon is not followed.
startFlow(granted, flows, horizon) ==
  /\ batch = 0
  /\ cvReady
  /\ ~running
  /\ Len(countingDown) < flows
  /\ now + CountdownMs <= horizon
  /\ IF granted
     THEN /\ countingDown' = Append(countingDown, now)
          /\ playing' = TRUE
          /\ IF variant = "auto"
             THEN LET c == startCalibration(calibTimer, timers)
                  IN calibTimer' = c.calibTimer /\ timers' = c.timers
             ELSE UNCHANGED <<calibTimer, timers>>
     ELSE UNCHANGED <<countingDown, playing, calibTimer, timers>>
  /\ UNCHANGED <<auxVars, now, cvReady, gameShots, status, H, liveMats, Hreleased,
                 lastHTime, lossStreak, calibrationMode, calibPoints, statVars, loopVars>>

\* frameLoop() that also returns early while no Homography is published
frameLoopCalibrated(run, queue) == IF run /\ H # NoH THEN queue + 1 ELSE queue

\* frameLoop(): registers one frame callback when running
frameLoop(run, queue) == IF run THEN queue + 1 ELSE queue

\* countdown(10) of the oldest suspended activation resolves, ten 1000 ms
\* sleeps and one of 500 ms after it began: the statistics are zeroed and
\* the game loop started
countdownDone ==
  /\ batch = 0
  /\ countingDown # <<>>
  /\ now >= Head(countingDown) + CountdownMs
  /\ countingDown' = Tail(countingDown)
  /\ shotsFired' = 0
  /\ totalScore' = 0
  /\ running' = TRUE
  /\ rvfcQueue' = frameLoop(TRUE, rvfcQueue)
  /\ landed' = EmptyBag
  /\ summaries' = 0
  /\ UNCHANGED <<auxVars, now, cvReady, gameShots, status, calibVars, lastHitTs, evLast,
                 batch, frame, prevMask, liveMasks, playing, alerts, shown>>

----------------------------------------------------------------------------
(* Main gameplay: the frame callback registered by frameLoop *)

\* main.js:158  !H || (now-lastHTime)>2000
isStale(h, t, lastH) == h = NoH \/ t - lastH > StaleMs

\* hit && H, and H not older than the staleness timeout
canScoreFresh(hit, h) == hit # NoPt /\ h # NoH /\ now - lastHTime <= StaleMs

\* main.js:162, part_000:261  hit && H
canScore(hit, h) == hit # NoPt /\ h # NoH

\* a debounce that only orders the timestamps
debounceAlways(t, last) == t >= last

\* main.js:167, part_000:274  now-lastHitTs>120
debounceOk(t, last) == t - last > DebounceMs

\* shotsFired > gameShots
goalPassed(shots, goal) == shots > goal

\* main.js:171, part_000:284  shotsFired>=gameShots
goalReached(shots, goal) == shots >= goal

\* a video frame with red mask m is presented dt ms after the previous
\* event: the callbacks registered for it are run one after the other, each
\* drawing that same frame
frameReady(dt, m, horizon) ==
  /\ batch = 0
  /\ rvfcQueue > 0
  /\ now + dt <= horizon
  /\ now' = now + dt
  /\ batch' = rvfcQueue
  /\ rvfcQueue' = 0
  /\ frame' = m
  /\ UNCHANGED <<auxVars, cvReady, gameShots, status, calibVars, statVars,
                 running, summaries, alerts, shown, prevMask, liveMasks, flowVars>>

\* one callback: sens and minA are the values of #sens and #minArea
frameCallback(sens, minA) ==
  /\ batch > 0
  /\ LET combined == frame
         hit == detectTransientRed(prevMask, combined, sens, minA)
         stale == isStale(H, now, lastHTime)
         accept == canScore(hit, H) /\ debounceOk(now, lastHitTs)
         ptW == perspectiveTransform(H, scalePt(hit))
         score == scoreBullseye(ptW)
         ended == accept /\ goalReached(shotsFired + 1, gameShots)
         streak == IF stale THEN lossStreak + 1 ELSE 0
     IN /\ prevMask' = <<combined>>
        /\ liveMasks' = storeMask(prevMask, liveMasks)
        /\ IF variant = "auto"
           THEN /\ lossStreak' = streak
                /\ status' = IF stale /\ streak > LossFlag
                             THEN Status("Reacquiring", 0, "") ELSE status
           ELSE /\ lossStreak' = lossStreak
                /\ status' = IF ~canScore(hit, H) /\ H = NoH
                             THEN (IF calibrationMode THEN Status("tap4", 0, "")
                                   ELSE Status("notCalibrated", 0, ""))
                             ELSE status
        /\ IF accept
           THEN /\ lastHitTs' = now
                /\ shotsFired' = shotsFired + 1
                /\ totalScore' = totalScore + score
                /\ landed' = landed (+) SetToBag({Dist2(ptW)})
                /\ evLast' = now
           ELSE UNCHANGED statVars
        /\ flashHits' = IF combined = {} \/ H = NoH \/ ~running THEN 0
                         ELSE IF accept THEN flashHits + 1 ELSE flashHits
        /\ running' = IF ended THEN FALSE ELSE running
        /\ summaries' = IF ended THEN summaries + 1 ELSE summaries
        /\ alerts' = IF ended THEN Append(alerts, now + AlertDelayMs) ELSE alerts
        /\ rvfcQueue' = frameLoop(running', rvfcQueue)
        /\ batch' = batch - 1
  /\ UNCHANGED <<variant, probe, now, cvReady, gameShots, H, liveMats, Hreleased,
                 lastHTime, calibTimer, timers,
                 calibrationMode, calibPoints, frame, shown, flowVars>>

----------------------------------------------------------------------------
(* Settings *)

\* (n / d).toFixed(1) in tenths, for n >= 0 and d > 0: the nearest tenth,
\* the larger one when two are equally near
toFixed1(n, d) == (20 * n + d) \div (2 * d)

\* #avgScore as updateStats writes it, in tenths
avgScore(total, shots) == IF shots = 0 THEN 0 ELSE toFixed1(total, shots)

\* the Avg of the summary, in tenths
summaryAvg(total, shots, goal) == toFixed1(total, goal)

\* the timeout callback scheduled at the end of a session: alert(`Done! ...`).
\* It runs once its 80 ms have passed; when no frame callback and no
\* countdown is pending, the expiry of the timeout is the next thing to happen
summaryAlert ==
  /\ batch = 0
  /\ alerts # <<>>
  /\ IF now >= Head(alerts) THEN now' = now
     ELSE rvfcQueue = 0 /\ countingDown = <<>> /\ now' = Head(alerts)
  /\ alerts' = Tail(alerts)
  /\ shown' = <<totalScore, summaryAvg(totalScore, shotsFired, gameShots)>>
  /\ UNCHANGED <<auxVars, cvReady, gameShots, status, calibVars, statVars,
                 running, rvfcQueue, batch, frame, summaries, prevMask, liveMasks,
                 flowVars>>

\* a goal selection that also zeroes the statistics
gameSelectResets(g) ==
  /\ batch = 0
  /\ gameShots' = g
  /\ shotsFired' = 0
  /\ totalScore' = 0
  /\ landed' = EmptyBag
  /\ UNCHANGED <<auxVars, now, cvReady, status, calibVars, lastHitTs, evLast, loopVars,
                 flowVars>>

\* #gameSelect change
gameSelect(g) ==
  /\ batch = 0
  /\ gameShots' = g
  /\ UNCHANGED <<auxVars, now, cvReady, status, calibVars, statVars, loopVars, flowVars>>

\* #resetScores click (manual build: zeroes the statistics; the auto build
\* only removes a localStorage item)
resetScores ==
  /\ batch = 0
  /\ variant = "manual"
  /\ shotsFired' = 0
  /\ totalScore' = 0
  /\ landed' = EmptyBag
  /\ UNCHANGED <<auxVars, now, cvReady, gameShots, status, calibVars, lastHitTs, evLast,
                 loopVars, flowVars>>

----------------------------------------------------------------------------
(* Calibration (auto) *)

\* H.delete() under if(H): the count of live Mats once H has been released
deleteH(h, released, live) == IF h # NoH /\ ~released THEN live - 1 ELSE live

\* if(H) H.delete() without the delete: the instance replaced stays live
replaceHLeaking(h, released, live) == live + 1

\* if(H) H.delete(); H = <a new Mat>
replaceH(h, released, live) == deleteH(h, released, live) + 1

\* #calibBtn click (main.js:37)
recalibrate ==
  /\ batch = 0
  /\ variant = "auto"
  /\ LET c == startCalibration(NoTimer, IF calibTimer # NoTimer
                                          THEN timers \ {calibTimer} ELSE timers)
     IN calibTimer' = c.calibTimer /\ timers' = c.timers
  /\ H' = NoH
  /\ liveMats' = deleteH(H, Hreleased, liveMats)
  /\ Hreleased' = FALSE
  /\ lastHTime' = 0
  /\ lossStreak' = 0
  /\ status' = Status("Re-calibrating", 0, "")
  /\ UNCHANGED <<auxVars, now, cvReady, gameShots, calibrationMode, calibPoints,
                 statVars, loopVars, flowVars>>

\* one callback of the 60 ms interval timer
calibTick(count, fb, n) ==
  /\ batch = 0
  /\ variant = "auto"
  /\ timers # {}
  /\ cvReady
  /\ LET res == tickResult(count, fb, n)
     IN /\ status' = res.status
        /\ IF publishes(res)
           THEN /\ H' = res.H
                /\ liveMats' = replaceH(H, Hreleased, liveMats)
                /\ Hreleased' = FALSE
                /\ lastHTime' = now
                /\ lossStreak' = 0
           ELSE /\ liveMats' = IF res.H # NoH THEN liveMats + 1 ELSE liveMats
                /\ UNCHANGED <<H, Hreleased, lastHTime, lossStreak>>
  /\ UNCHANGED <<auxVars, now, cvReady, gameShots, calibTimer, timers, calibrationMode,
                 calibPoints, statVars, loopVars, flowVars>>

----------------------------------------------------------------------------
(* Calibration (manual) *)

\* a calibration request that leaves the published Homography in place
startManualCalibrationKeepsH ==
  /\ batch = 0
  /\ variant = "manual"
  /\ calibrationMode' = TRUE
  /\ calibPoints' = <<>>
  /\ status' = Status("tap4", 0, "")
  /\ UNCHANGED <<auxVars, now, cvReady, gameShots, H, liveMats, Hreleased, lastHTime,
                 lossStreak, calibTimer, timers, statVars, loopVars, flowVars>>

\* #calibBtn click (part_000:166)
startManualCalibration ==
  /\ batch = 0
  /\ variant = "manual"
  /\ calibrationMode' = TRUE
  /\ calibPoints' = <<>>
  /\ H' = NoH
  /\ liveMats' = deleteH(H, Hreleased, liveMats)
  /\ Hreleased' = FALSE
  /\ status' = Status("tap4", 0, "")
  /\ UNCHANGED <<auxVars, now, cvReady, gameShots, lastHTime, lossStreak, calibTimer,
                 timers, statVars, loopVars, flowVars>>

\* corners the user may tap next: the tour starts at the top-left or the
\* top-right corner and goes clockwise
tapChoices(pts) ==
  IF pts = <<>> THEN {TapCorners[1], TapCorners[2]}
  ELSE LET k == CHOOSE k \in 1 .. 4 : TapCorners[k] = pts[Len(pts)]
       IN {TapCorners[(k % 4) + 1]}

\* three of the four points lie on a line (or coincide)
Collinear(a, b, c) ==
  (b[1] - a[1]) * (c[2] - a[2]) - (b[2] - a[2]) * (c[1] - a[1]) = 0
Degenerate(q) ==
  \E i, j, k \in 1 .. 4 : i < j /\ j < k /\ Collinear(q[i], q[j], q[k])

\* how the try block of buildHomographyFromCalib may end: cv.matFromArray
\* throws when OpenCV has not loaded; cv.getPerspectiveTransform is given a
\* singular system by degenerate points and may throw or return a matrix
buildOutcomes(pts, ready) ==
  IF ~ready THEN {"throwEarly"}
  ELSE IF Degenerate(pts) THEN {"built", "throwLate"}
  ELSE {"built"}

\* a build that leaves the matrix under construction in H when cv throws
buildHomographyPartial(pts, outcome, h, released, live) ==
  IF outcome = "built"
  THEN [H |-> <<pts[1], pts[2], pts[3], pts[4]>>, released |-> FALSE,
        live |-> replaceH(h, released, live),
        status |-> Status("calibratedManual", 0, "")]
  ELSE [H |-> <<pts[1], pts[2], pts[3], pts[4]>>, released |-> FALSE,
        live |-> live + 1, status |-> Status("calibrationFailed", 0, "")]

\* buildHomographyFromCalib: the try block, or the catch block when cv
\* throws, before or after if (H) H.delete()
buildHomographyFromCalib(pts, outcome, h, released, live) ==
  CASE outcome = "built" ->
         [H |-> <<pts[1], pts[2], pts[3], pts[4]>>, released |-> FALSE,
          live |-> replaceH(h, released, live),
          status |-> Status("calibratedManual", 0, "")]
    [] outcome = "throwEarly" ->
         [H |-> h, released |-> released, live |-> live,
          status |-> Status("calibrationFailed", 0, "")]
    [] OTHER ->
         [H |-> h, released |-> released \/ h # NoH,
          live |-> deleteH(h, released, live),
          status |-> Status("calibrationFailed", 0, "")]

\* a tap is recorded whatever the mode
tapRecordedAlways(mode) == TRUE

\* if (!calibrationMode) return;
tapRecorded(mode) == mode

\* click / touchstart on the overlay
handleCalibTap(p) ==
  /\ batch = 0
  /\ variant = "manual"
  /\ tapRecorded(calibrationMode)
  /\ LET pts == Append(calibPoints, p)
     IN IF Len(pts) = 4
        THEN \E outcome \in buildOutcomes(pts, cvReady) :
               LET b == buildHomographyFromCalib(pts, outcome, H, Hreleased, liveMats)
               IN /\ H' = b.H
                  /\ Hreleased' = b.released
                  /\ liveMats' = b.live
                  /\ calibrationMode' = FALSE
                  /\ calibPoints' = <<>>
                  /\ status' = b.status
        ELSE /\ calibPoints' = pts
             /\ status' = Status("tap", Len(pts), "")
             /\ UNCHANGED <<H, Hreleased, liveMats, calibrationMode>>
  /\ UNCHANGED <<auxVars, now, cvReady, gameShots, lastHTime, lossStreak, calibTimer,
                 timers, statVars, loopVars, flowVars>>

----------------------------------------------------------------------------
(* The program *)

Next ==
  \/ countdownSleeps(MaxTime)
  \/ onOpenCvReady
  \/ \E granted \in BOOLEAN : startFlow(granted, MaxFlows, MaxTime)
  \/ countdownDone
  \/ \E dt \in Deltas, m \in Masks : frameReady(dt, m, MaxTime)
  \/ \E sens \in SensChoices, minA \in MinAreaChoices : frameCallback(sens, minA)
  \/ summaryAlert
  \/ \E g \in GameChoices : gameSelect(g)
  \/ resetScores
  \/ recalibrate
  \/ \E count \in MarkerCounts, fb \in BOOLEAN, n \in SquareCounts :
       calibTick(IF playing THEN count ELSE 0, fb, IF playing THEN n ELSE 0)
  \/ startManualCalibration
  \/ \E p \in tapChoices(calibPoints) : handleCalibTap(p)

Spec == Init /\ [][Next]_vars

----------------------------------------------------------------------------
(* A game started by a single activation, followed for MatchTicks frame     *)
(* periods with the goal set to three shots                                 *)

NextMatch ==
  \/ countdownSleeps(MatchTime)
  \/ onOpenCvReady
  \/ startFlow(TRUE, 1, MatchTime)
  \/ countdownDone
  \/ \E dt \in Deltas, m \in MatchMasks : frameReady(dt, m, MatchTime)
  \/ \E sens \in SensChoices, minA \in MinAreaChoices : frameCallback(sens, minA)
  \/ summaryAlert
  \/ \E g \in MatchGoals : gameSelect(g)
  \/ resetScores
  \/ \E count \in MarkerCounts : calibTick(IF playing THEN count ELSE 0, FALSE, 0)
  \/ startManualCalibration
  \/ \E p \in tapChoices(calibPoints) : handleCalibTap(p)

SpecMatch == Init /\ [][NextMatch]_vars

----------------------------------------------------------------------------
(* A running session of the auto build whose calibration has gone stale:    *)
(* H was published before the countdown, the markers have been out of view  *)
(* since, and the frame callback has run LossFlag - 1 times on frames       *)
(* without red, 75 ms apart, since the game began                           *)

StaleStart == CountdownMs + (LossFlag - 1) * 75
StaleTime == StaleStart + StaleTicks * 75

InitStale ==
  /\ variant = "auto"
  /\ now = StaleStart
  /\ cvReady = TRUE
  /\ running = TRUE
  /\ H = detectMarkersAndHomography(Len(SceneMarkers)).H
  /\ liveMats = 1
  /\ Hreleased = FALSE
  /\ lastHTime = 0
  /\ lossStreak = LossFlag - 1
  /\ shotsFired = 0
  /\ totalScore = 0
  /\ gameShots = DefaultShots
  /\ lastHitTs = 0
  /\ calibTimer = startCalibration(NoTimer, {}).calibTimer
  /\ timers = startCalibration(NoTimer, {}).timers
  /\ prevMask = <<{}>>
  /\ liveMasks = 1
  /\ calibrationMode = FALSE
  /\ calibPoints = <<>>
  /\ status = tickResult(1, FALSE, 0).status
  /\ countingDown = <<>>
  /\ rvfcQueue = 1
  /\ batch = 0
  /\ frame = {}
  /\ playing = TRUE
  /\ landed = EmptyBag
  /\ evLast = -1
  /\ summaries = 0
  /\ alerts = <<>>
  /\ shown = NoSummary
  /\ flashHits = 0
  /\ probe = NoProbe

NextStale ==
  \/ \E dt \in Deltas, m \in Masks : frameReady(dt, m, StaleTime)
  \/ \E sens \in SensChoices, minA \in MinAreaChoices : frameCallback(sens, minA)
  \/ summaryAlert
  \/ \E g \in GameChoices : gameSelect(g)
  \/ recalibrate
  \/ \E count \in MarkerCounts, fb \in BOOLEAN, n \in SquareCounts : calibTick(count, fb, n)

SpecStale == InitStale /\ [][NextStale]_vars

----------------------------------------------------------------------------
(* A running session of the auto build that has never been calibrated: the  *)
(* markers were out of view during the countdown and have been since, and   *)
(* the frame callback has run LossFlag - 1 times on frames without red,     *)
(* 75 ms apart, since the game began                                        *)

InitSeek ==
  /\ variant = "auto"
  /\ now = StaleStart
  /\ cvReady = TRUE
  /\ running = TRUE
  /\ H = NoH
  /\ liveMats = 0
  /\ Hreleased = FALSE
  /\ lastHTime = 0
  /\ lossStreak = LossFlag - 1
  /\ shotsFired = 0
  /\ totalScore = 0
  /\ gameShots = DefaultShots
  /\ lastHitTs = 0
  /\ calibTimer = startCalibration(NoTimer, {}).calibTimer
  /\ timers = startCalibration(NoTimer, {}).timers
  /\ prevMask = <<{}>>
  /\ liveMasks = 1
  /\ calibrationMode = FALSE
  /\ calibPoints = <<>>
  /\ status = tickResult(1, FALSE, 0).status
  /\ countingDown = <<>>
  /\ rvfcQueue = 1
  /\ batch = 0
  /\ frame = {}
  /\ playing = TRUE
  /\ landed = EmptyBag
  /\ evLast = -1
  /\ summaries = 0
  /\ alerts = <<>>
  /\ shown = NoSummary
  /\ flashHits = 0
  /\ probe = NoProbe

NextSeek == NextStale

SpecSeek == InitSeek /\ [][NextSeek]_vars

----------------------------------------------------------------------------
(* ScoreEngine on its own: scoreBullseye applied to a target-plane point    *)

\* offsets of the probed points from BULLSEYE.center: multiples of (3, 4),
\* which lie at whole distances, and their neighbours one pixel to the right
ProbeSteps == 0 .. ProbeSpan
ProbePoints ==
  {<<CenterX + 3 * k + e, CenterY + 4 * k>> : k \in ProbeSteps, e \in {0, 1}}
    \cup {<<CenterX - 3 * k, CenterY + 4 * k>> : k \in ProbeSteps}

InitScore ==
  /\ variant \in {"auto", "manual"}
  /\ Constructed
  /\ probe \in {<<p>> : p \in ProbePoints}

\* scoreBullseye(pt) is called on the probed point
scoreProbe ==
  /\ Len(probe) = 1
  /\ probe' = <<probe[1], scoreBullseye(probe[1])>>
  /\ UNCHANGED <<variant, flashHits, now, cvReady, gameShots, status, calibVars, statVars,
                 loopVars, flowVars>>

NextScore == scoreProbe

SpecScore == InitScore /\ [][NextScore]_vars

----------------------------------------------------------------------------
(* detectTransientRed on its own: the temporal differ applied to a frame,  *)
(* and the contour loop applied to the components of a diff mask           *)

\* components the diff mask of a probed contour loop may have
MaxBlobs == 3

\* values of #sens and #minArea the probes are made with: below every
\* component area, equal to one, and at the largest
DetectSens == {18, 50, 80}
DetectMinAreas == {16, 30, 80}
DetectMasks == SUBSET Regions

\* contours as cv.findContours may return them: up to MaxBlobs components,
\* in any traversal order
ContourSeqs ==
  {q \in UNION {[1 .. n -> Regions] : n \in 0 .. MaxBlobs} :
     \A i, j \in DOMAIN q : i # j => q[i] # q[j]}

InitDetect ==
  /\ variant \in {"auto", "manual"}
  /\ now = 0
  /\ cvReady = TRUE
  /\ running = FALSE
  /\ H = NoH
  /\ liveMats = 0
  /\ Hreleased = FALSE
  /\ lastHTime = 0
  /\ lossStreak = 0
  /\ shotsFired = 0
  /\ totalScore = 0
  /\ gameShots = DefaultShots
  /\ lastHitTs = 0
  /\ calibTimer = NoTimer
  /\ timers = {}
  /\ calibrationMode = FALSE
  /\ calibPoints = <<>>
  /\ status = StatusNone
  /\ countingDown = <<>>
  /\ rvfcQueue = 0
  /\ batch = 0
  /\ playing = TRUE
  /\ landed = EmptyBag
  /\ evLast = -1
  /\ summaries = 0
  /\ alerts = <<>>
  /\ shown = NoSummary
  /\ flashHits = 0
  /\ \/ /\ prevMask \in {NoMask} \cup {<<m>> : m \in DetectMasks}
        /\ frame \in DetectMasks
        /\ probe \in {<<[kind |-> "frame", contours |-> <<>>, sens |-> s, minA |-> a]>> :
                         s \in DetectSens, a \in DetectMinAreas}
     \/ /\ prevMask = NoMask
        /\ frame = {}
        /\ probe \in {<<[kind |-> "blobs", contours |-> q, sens |-> s, minA |-> a]>> :
                         q \in ContourSeqs, s \in DetectSens, a \in DetectMinAreas}
  /\ liveMasks = IF prevMask = NoMask THEN 0 ELSE 1

\* detectTransientRed(src) is called on the frame: the diff mask pos it
\* computes and the point it returns are recorded with the prevMask it found
differProbe ==
  /\ Len(probe) = 1
  /\ probe[1].kind = "frame"
  /\ probe' = <<probe[1],
                [prev |-> prevMask,
                 pos |-> IF prevMask = NoMask THEN {}
                         ELSE subtractMask(frame, prevMask[1]),
                 pt |-> detectTransientRed(prevMask, frame, probe[1].sens, probe[1].minA)]>>
  /\ prevMask' = <<frame>>
  /\ liveMasks' = storeMask(prevMask, liveMasks)
  /\ UNCHANGED <<variant, flashHits, now, cvReady, gameShots, status, calibVars, statVars,
                 running, rvfcQueue, batch, frame, summaries, alerts, shown, flowVars>>

\* the contour loop of detectTransientRed is run over the probed contours
blobProbe ==
  /\ Len(probe) = 1
  /\ probe[1].kind = "blobs"
  /\ probe' = <<probe[1],
                [pt |-> blobLoop(probe[1].contours, 1, probe[1].sens, probe[1].minA, 0, NoPt)]>>
  /\ UNCHANGED <<variant, flashHits, now, cvReady, gameShots, status, calibVars, statVars,
                 loopVars, flowVars>>

NextDetect == differProbe \/ blobProbe

SpecDetect == InitDetect /\ [][NextDetect]_vars

----------------------------------------------------------------------------
(* hullHomography on its own, applied to lists of corner points             *)

\* points a probed list may hold
MaxHullPts == 4

\* corner points offered (video px): the corners of an axis-aligned
\* rectangle, y growing downward, and its centre
HullPoints == {<<0, 0>>, <<900, 0>>, <<900, 1200>>, <<0, 1200>>, <<450, 600>>}

\* the lists pts handed to hullHomography: up to MaxHullPts distinct points
\* in any order
HullLists ==
  {q \in UNION {[1 .. n -> HullPoints] : n \in 0 .. MaxHullPts} :
     \A i, j \in DOMAIN q : i # j => q[i] # q[j]}

InitHull ==
  /\ variant = "auto"
  /\ Constructed
  /\ probe \in {<<[kind |-> "hull", pts |-> q]>> : q \in HullLists}

\* hullHomography(pts) is called on the probed list
hullProbe ==
  /\ Len(probe) = 1
  /\ probe[1].kind = "hull"
  /\ probe' = <<probe[1], hullHomography(probe[1].pts)>>
  /\ UNCHANGED <<variant, flashHits, now, cvReady, gameShots, status, calibVars, statVars,
                 loopVars, flowVars>>

NextHull == hullProbe

SpecHull == InitHull /\ [][NextHull]_vars

----------------------------------------------------------------------------
(* The manual calibration state machine on its own, with taps on the       *)
(* corners of the target in any order and on the middle of its top edge    *)

\* points of the overlay the user may tap
TapPoints == {TapCorners[k] : k \in 1 .. 4} \cup {<<450, 0>>}

InitTaps ==
  /\ variant = "manual"
  /\ Constructed
  /\ probe = NoProbe

NextTaps ==
  \/ onOpenCvReady
  \/ startManualCalibration
  \/ \E p \in TapPoints : handleCalibTap(p)

SpecTaps == InitTaps /\ [][NextTaps]_vars


----------------------------------------------------------------------------
(* Properties *)

\* a step that runs one frame callback
CallbackStep ==
  \E sens \in SensChoices, minA \in MinAreaChoices : frameCallback(sens, minA)

\* C1: a detection made while a Homography is published is accepted as a hit
\* if and only if more than 120 ms have passed since the last accepted hit
\* (or none was accepted yet); an accepted hit advances shotsFired by one and
\* stamps lastHitTs, a dropped one changes neither lastHitTs nor the
\* statistics.  Hence two HitEvents are always more than 120 ms apart.
C1_Debounce ==
  [][\A sens \in SensChoices, minA \in MinAreaChoices :
       (/\ frameCallback(sens, minA)
        /\ detectTransientRed(prevMask, frame, sens, minA) # NoPt
        /\ H # NoH)
       => IF evLast = -1 \/ now - evLast > 120
          THEN shotsFired' = shotsFired + 1 /\ lastHitTs' = now /\ evLast' = now
          ELSE UNCHANGED <<lastHitTs, shotsFired, totalScore, landed, evLast>>]_vars

\* a hit on region 1 was accepted 75 ms ago, and the frame just processed
\* showed region 2 as new: that detection was dropped
C1_DroppedInsideWindow ==
  /\ variant = "manual"
  /\ H = TapCorners
  /\ batch = 0
  /\ frame = {1, 2}
  /\ prevMask = <<frame>>
  /\ landed = SetToBag({2500})
  /\ evLast = now - 75
  /\ shotsFired = 1

\* C2: over a maximal run of consecutive processed frames that show the
\* flash, with a Homography published and the session running, no more than
\* one HitEvent is emitted (and exactly one by the end of the run).
C2_OneHitPerFlash == flashHits <= 1

\* the score the ring table [120,220,320,420] / [10,9,8,7,6] assigns to a
\* squared distance: the first ring, in ascending order, that reaches it
C3_Expected(d2) ==
  IF d2 <= 120 * 120 THEN 10
  ELSE IF d2 <= 220 * 220 THEN 9
  ELSE IF d2 <= 320 * 320 THEN 8
  ELSE IF d2 <= 420 * 420 THEN 7
  ELSE 6

\* C3: scoreBullseye returns the value of the first ring whose radius is >=
\* the distance of the point from (450,600), and 6 beyond the last ring;
\* distance 50 scores 10, 150 scores 9, 450 scores 6, and a point exactly on
\* the 120 ring scores 10.
C3_ScoreEngine ==
  Len(probe) = 2 =>
    LET x == probe[1][1]
        y == probe[1][2]
    IN /\ probe[2] = C3_Expected((x - 450) * (x - 450) + (y - 600) * (y - 600))
       /\ probe[1] = <<480, 640>> => probe[2] = 10
       /\ probe[1] = <<540, 720>> => probe[2] = 9
       /\ probe[1] = <<720, 960>> => probe[2] = 6
       /\ probe[1] = <<522, 696>> => probe[2] = 10

\* the point at distance 120, on the innermost ring, has been scored
C3_OnRingScored == probe = << <<522, 696>>, 10 >>

\* squared distances 50, 250 and 500 from the centre
C4_Landed == SetToBag({2500, 62500, 250000})

\* C4 as stated: with a goal of 3, three accepted hits at distances 50, 250
\* and 500 leave shotsFired = 3 and totalScore = 25.
C4_Original ==
  (gameShots = 3 /\ landed = C4_Landed) => (shotsFired = 3 /\ totalScore = 25)

\* C4 amended: with a goal of 3, three accepted hits at distances 50, 250 and
\* 500 leave shotsFired = 3 and totalScore = 10 + 8 + 6 = 24 (distance 250
\* lies beyond the 220 ring, so it scores 8).
C4_EndToEnd ==
  (gameShots = 3 /\ landed = C4_Landed) => (shotsFired = 3 /\ totalScore = 24)

\* the three hits have landed and the game is over
C4_ThreeLanded ==
  /\ gameShots = 3
  /\ landed = C4_Landed
  /\ ~running
  /\ summaries = 1

\* C5: the session-end summary is scheduled only by the frame callback whose
\* accepted hit brings shotsFired to the goal or beyond, is always scheduled
\* by such a callback (which also stops the session), and is scheduled at
\* most once between two game starts.
C5_SummaryOnce ==
  [][/\ summaries' > summaries =>
          /\ CallbackStep
          /\ summaries' = summaries + 1
          /\ shotsFired' = shotsFired + 1
          /\ shotsFired' >= gameShots
     /\ (CallbackStep /\ shotsFired' = shotsFired + 1 /\ shotsFired' >= gameShots) =>
          /\ summaries' = summaries + 1
          /\ ~running'
     /\ summaries' <= 1]_vars

\* a session has ended on reaching the goal, after Start was pressed twice
C5_Ended ==
  /\ summaries = 1
  /\ ~running
  /\ batch = 0
  /\ shotsFired = gameShots
  /\ countingDown # <<>>

\* C6: once the goal is reached and running is false, no frame callback runs
\* and shotsFired, totalScore and lastHitTs stay as they are until the next
\* game start.
C6_QuietAfterEnd ==
  [][(~running /\ summaries > 0 /\ ~countdownDone /\ ~resetScores) =>
       (~CallbackStep /\ UNCHANGED <<shotsFired, totalScore, lastHitTs>>)]_vars

\* C7: a frame callback that runs while H is absent stores the frame's mask
\* in prevMask and registers the next callback when the session is running,
\* emits no HitEvent and leaves the statistics, lastHitTs and running alone.
C7_LoopWithoutH ==
  [][(CallbackStep /\ H = NoH) =>
       /\ prevMask' = <<frame>>
       /\ rvfcQueue' = IF running THEN rvfcQueue + 1 ELSE rvfcQueue
       /\ UNCHANGED <<shotsFired, totalScore, lastHitTs, landed, evLast, running,
                      summaries>>]_vars

\* two or more callbacks have run without a Homography, the last on a frame
\* showing red; nothing was scored and the next callback is registered
C7_RedFrameWithoutH ==
  /\ variant = "auto"
  /\ H = NoH
  /\ lossStreak >= 2
  /\ running
  /\ batch = 0
  /\ rvfcQueue >= 1
  /\ prevMask = <<{1, 2}>>
  /\ evLast = -1
  /\ shotsFired = 0

\* C8: a calibration tick that finds fewer than 2 markers with the square
\* fallback off leaves H, lastHTime and lossStreak unchanged and sets a
\* 'seeking' status.
C8_FailedTickKeepsH ==
  [][\A count \in {0, 1}, n \in SquareCounts \cup {0} :
       calibTick(count, FALSE, n) =>
         /\ UNCHANGED <<H, lastHTime, lossStreak>>
         /\ status'.state = "seeking"]_vars

\* a tick found one marker after H had been published: H is still there
C8_SeekingWithH ==
  /\ variant = "auto"
  /\ H # NoH
  /\ lastHTime < now
  /\ status = Status("markers", 1, "seeking")

\* C9: in the auto build a step that takes H from present to absent is a
\* Re-calibrate request.
C9_OnlyRecalibrateClears ==
  [][(variant = "auto" /\ H # NoH /\ H' = NoH) => recalibrate]_vars

\* H was published before the countdown and is still published after the
\* session it served has ended and a later tick has failed
C9_SurvivedSession ==
  /\ variant = "auto"
  /\ H # NoH
  /\ lastHTime = 0
  /\ ~running
  /\ summaries = 1
  /\ status.state = "seeking"

\* C10: a detection made outside the debounce window while a Homography is
\* published is projected through it and scored, whatever the age of that
\* Homography: also when it is older than 2000 ms and 'Reacquiring' is shown.
C10_StaleStillScores ==
  [][\A sens \in SensChoices, minA \in MinAreaChoices :
       LET hit == detectTransientRed(prevMask, frame, sens, minA)
       IN (/\ frameCallback(sens, minA)
           /\ H # NoH
           /\ hit # NoPt
           /\ evLast = -1 \/ now - evLast > 120)
          => /\ shotsFired' = shotsFired + 1
             /\ lastHitTs' = now
             /\ totalScore' =
                  totalScore + scoreBullseye(perspectiveTransform(H, scalePt(hit)))]_vars

\* a hit was scored by the callback that found H older than 2000 ms for
\* more than 60 callbacks in a row
C10_ScoredWhileReacquiring ==
  /\ status.kind = "Reacquiring"
  /\ H # NoH
  /\ now - lastHTime > 2000
  /\ lossStreak > 60
  /\ evLast = now
  /\ shotsFired >= 1


\* C11: for every processed frame after the first, the diff mask is exactly
\* the set of pixels that are red in the current mask and not in the previous
\* frame's mask; when the current mask equals the previous one the diff is
\* empty and detectTransientRed returns no detection, however large the
\* steady red region is.
C11_TemporalDiffer ==
  (Len(probe) = 2 /\ probe[1].kind = "frame" /\ probe[2].prev # NoMask) =>
    LET before == probe[2].prev[1]
        current == prevMask[1]
    IN /\ probe[2].pos = {r \in Regions : r \in current /\ r \notin before}
       /\ \A r \in before \ current : r \notin probe[2].pos
       /\ current = before => (probe[2].pos = {} /\ probe[2].pt = NoPt)

\* a frame whose whole red area (all four patches, 240 px) was already red
\* in the frame before has been processed, and nothing was detected
C11_SteadyRedIgnored ==
  /\ Len(probe) = 2
  /\ probe[1].kind = "frame"
  /\ probe[2].prev = <<Regions>>
  /\ prevMask = <<Regions>>
  /\ probe[1].sens = 18
  /\ probe[1].minA = 16
  /\ probe[2].pt = NoPt

\* C12: over the components of the diff mask, the centroid returned is that
\* of the component with the largest area among those whose area is strictly
\* greater than both minArea and sensitivity, the first encountered when
\* several share the largest area; a component with area <= max(minArea,
\* sensitivity) is never returned, and nothing is returned when no component
\* qualifies.  For areas 50 and 80, both qualifying, the 80-area component's
\* centroid is returned in either traversal order.
C12_BlobSelector ==
  (Len(probe) = 2 /\ probe[1].kind = "blobs") =>
    LET q == probe[1].contours
        th == IF probe[1].sens > probe[1].minA THEN probe[1].sens ELSE probe[1].minA
        area(i) == IF q[i] = 1 THEN 50 ELSE IF q[i] = 3 THEN 30 ELSE 80
        qual == {i \in DOMAIN q : area(i) > th}
        pt == probe[2].pt
    IN /\ qual = {} => pt = NoPt
       /\ qual # {} =>
            \E i \in qual :
              /\ \A j \in qual : area(j) <= area(i)
              /\ \A j \in qual : j < i => area(j) < area(i)
              /\ pt = RegionCentroid(q[i])
       /\ \A i \in DOMAIN q : area(i) <= th => pt # RegionCentroid(q[i])
       /\ (th < 50 /\ q \in {<<1, 2>>, <<2, 1>>}) => pt = <<300, 400>>

\* two 80-area components with a 50-area one between them were traversed,
\* all three qualifying, and the centroid of the first was returned
C12_TieKeepsFirst ==
  /\ Len(probe) = 2
  /\ probe[1].kind = "blobs"
  /\ probe[1].contours = <<4, 1, 2>>
  /\ probe[1].sens = 18
  /\ probe[1].minA = 30
  /\ probe[2].pt = <<100, 200>>

\* C13: a calibration request enters Calibrating and discards the published
\* Homography and any taps collected; taps are recorded only while
\* Calibrating; no Homography is published after 1, 2 or 3 taps; on the 4th
\* tap the Homography is built from the four taps in tap order (1st -> TL,
\* 2nd -> TR, 3rd -> BR, 4th -> BL, no reordering), the state becomes
\* Calibrated and the taps are discarded.
C13_TapStateMachine ==
  [][/\ startManualCalibration =>
          (calibrationMode' /\ H' = NoH /\ calibPoints' = <<>>)
     /\ calibPoints' # calibPoints =>
          (startManualCalibration \/ calibrationMode)
     /\ (calibPoints' # calibPoints /\ calibPoints' # <<>>) =>
          /\ Len(calibPoints') = Len(calibPoints) + 1
          /\ Len(calibPoints') <= 3
          /\ calibrationMode'
          /\ H' = NoH
     /\ (H' # H /\ H' # NoH) => (calibrationMode /\ Len(calibPoints) = 3)
     /\ \A p \in TapPoints :
          (handleCalibTap(p) /\ Len(calibPoints) = 3
             /\ cvReady /\ ~Degenerate(Append(calibPoints, p))) =>
            /\ H' = <<calibPoints[1], calibPoints[2], calibPoints[3], p>>
            /\ ~calibrationMode'
            /\ calibPoints' = <<>>
            /\ status' = Status("calibratedManual", 0, "")]_vars

\* the corners were tapped in the order top-left, bottom-right, top-right,
\* bottom-left, and the Homography published keeps that order
C13_TapOrderKept ==
  /\ H = <<TapCorners[1], TapCorners[3], TapCorners[2], TapCorners[4]>>
  /\ ~calibrationMode
  /\ calibPoints = <<>>
  /\ status = Status("calibratedManual", 0, "")

\* C14: when building the Homography from the four taps fails, a
\* calibration error status is reported and the engine is left Uncalibrated:
\* H is absent (neither a released nor a partially built instance),
\* calibrationMode is false and the tap set is empty, so that a later
\* calibration request is accepted.
C14_FailedBuild ==
  [][/\ \A p \in TapPoints :
          (handleCalibTap(p) /\ Len(calibPoints) = 3) =>
            /\ ~cvReady => status' = Status("calibrationFailed", 0, "")
            /\ status' # Status("calibratedManual", 0, "") =>
                 /\ status' = Status("calibrationFailed", 0, "")
                 /\ H' = NoH
                 /\ ~Hreleased'
                 /\ liveMats' = 0
                 /\ ~calibrationMode'
                 /\ calibPoints' = <<>>
     /\ status = Status("calibrationFailed", 0, "") =>
          (H = NoH /\ ENABLED startManualCalibration)]_vars

\* the 4th tap of a calibration has failed to give a Homography (OpenCV not
\* yet loaded at that tap, or three of the taps on one line), and OpenCV is
\* loaded now
C14_BuildFailed ==
  /\ cvReady
  /\ status = Status("calibrationFailed", 0, "")
  /\ H = NoH
  /\ ~calibrationMode
  /\ calibPoints = <<>>

\* C15: at most one frame-loop callback is pending at any time (registered
\* for the next frame or still to run on the frame being delivered), so that
\* a delivered frame is processed by at most one iteration.
C15_OnePending == rvfcQueue + batch <= 1

\* C16: under every interleaving of calibration ticks, Re-calibrate requests
\* and frame-loop iterations, a frame callback only projects a hit through a
\* Homography that is constructed and not released; every instance replaced
\* or cleared is released, so that between callbacks exactly the published
\* instance, if any, is live.
C16_Handoff ==
  [][/\ (CallbackStep /\ shotsFired' # shotsFired) =>
          (H # NoH /\ Len(H) = 4 /\ ~Hreleased /\ liveMats = 1)
     /\ ~Hreleased'
     /\ liveMats' = IF H' # NoH THEN 1 ELSE 0]_vars

\* in the auto build a calibration tick published a Homography after play
\* had begun, and a hit was then projected through it
C16_ScoredAfterHandoff ==
  /\ variant = "auto"
  /\ running
  /\ lastHTime > CountdownMs
  /\ evLast > lastHTime
  /\ liveMats = 1
  /\ H # NoH

\* C17: shotsFired and totalScore are set to 0 at every game start and are
\* otherwise changed only by an accepted hit, which adds exactly 1 to
\* shotsFired and that hit's score to totalScore; no other operation
\* (calibration tick, calibration request or tap, settings handler, dropped
\* detection) modifies them.
C17_StatsWriters ==
  [][/\ countdownDone => (shotsFired' = 0 /\ totalScore' = 0)
     /\ (~countdownDone /\ <<shotsFired, totalScore>>' # <<shotsFired, totalScore>>) =>
          /\ CallbackStep
          /\ H # NoH
          /\ shotsFired' = shotsFired + 1
          /\ \E sens \in SensChoices, minA \in MinAreaChoices :
               LET hit == detectTransientRed(prevMask, frame, sens, minA)
               IN /\ hit # NoPt
                  /\ totalScore' = totalScore
                        + C3_Expected(Dist2(perspectiveTransform(H, scalePt(hit))))]_vars

\* C17 amended: shotsFired and totalScore are set to 0 at every game start
\* and by the Reset Scores handler of the manual build, and are otherwise
\* changed only by an accepted hit, which adds exactly 1 to shotsFired and
\* that hit's score to totalScore; no calibration tick, calibration request,
\* tap, goal selection or dropped detection modifies them.
C17_StatsWritersAmended ==
  [][/\ countdownDone => (shotsFired' = 0 /\ totalScore' = 0)
     /\ resetScores => (variant = "manual" /\ shotsFired' = 0 /\ totalScore' = 0)
     /\ (~countdownDone /\ ~resetScores
           /\ <<shotsFired, totalScore>>' # <<shotsFired, totalScore>>) =>
          /\ CallbackStep
          /\ H # NoH
          /\ shotsFired' = shotsFired + 1
          /\ \E sens \in SensChoices, minA \in MinAreaChoices :
               LET hit == detectTransientRed(prevMask, frame, sens, minA)
               IN /\ hit # NoPt
                  /\ totalScore' = totalScore
                        + C3_Expected(Dist2(perspectiveTransform(H, scalePt(hit))))]_vars

\* in the manual build the statistics of a running session are back at 0
\* after a hit scored in it 75 ms ago, with the goal of ten shots not reached
C17_ResetMidSession ==
  /\ variant = "manual"
  /\ running
  /\ gameShots = DefaultShots
  /\ evLast = now - 75
  /\ evLast > CountdownMs
  /\ shotsFired = 0
  /\ totalScore = 0
  /\ countingDown = <<>>
  /\ rvfcQueue + batch = 1

\* C18: the average shown in the session-end summary is the cumulative score
\* divided by the number of shots fired in the session, the same value as the
\* running average of the statistics, also when the shot goal was changed
\* while the session was running; the running average is 0 when no shot has
\* been fired.  (Averages in tenths, as both are printed with one decimal.)
C18_SummaryAverage ==
  [][/\ summaryAlert =>
          /\ shown'[1] = totalScore
          /\ shown'[2] = avgScore(totalScore, shotsFired)
          /\ shotsFired > 0 =>
               /\ 2 * shown'[2] * shotsFired <= 20 * totalScore + shotsFired
               /\ 20 * totalScore + shotsFired < 2 * (shown'[2] + 1) * shotsFired
     /\ shotsFired = 0 => avgScore(totalScore, shotsFired) = 0]_vars

\* C19: in the auto build 'Reacquiring' is raised only after more than 60
\* consecutive failed calibration ticks during which the published
\* Homography's age exceeds 2000 ms (the ticks being 60 ms apart, the last
\* successful one then lies more than 60 * 60 ms back), and the
\* consecutive-failure counter is reset to 0 by any successful calibration.
C19_ReacquiringAfterFailedTicks ==
  [][/\ (CallbackStep /\ lossStreak' > lossStreak /\ status'.kind = "Reacquiring") =>
          /\ H # NoH
          /\ now - lastHTime > 2000
          /\ now - lastHTime > 60 * 60
     /\ \A count \in MarkerCounts, fb \in BOOLEAN, n \in SquareCounts :
          (calibTick(count, fb, n) /\ H' # NoH /\ lastHTime' = now) => lossStreak' = 0]_vars

\* C20: 'Reacquiring' is never shown while H is absent, that is while no
\* Homography has been published since the last calibration request: the
\* status shown then is an uncalibrated or seeking one.
C20_ReacquiringOnlyCalibrated ==
  status.kind = "Reacquiring" => H # NoH

\* C21: a calibration tick that obtains a Homography (from two or more
\* markers, or from four squares when the fallback is enabled) replaces the
\* published instance by the new one, releases the old one, sets lastHTime
\* to the current time and lossStreak to 0, all in that tick; a tick that
\* obtains none changes none of H, lastHTime and lossStreak.
C21_TickSuccess ==
  [][\A count \in 0 .. 2, fb \in BOOLEAN, n \in {0, 3, 5} :
       calibTick(count, fb, n) =>
         IF count >= 2 \/ (fb /\ n >= 4)
         THEN /\ H' # NoH
              /\ Len(H') = 4
              /\ status'.state = "calibrated"
              /\ liveMats' = 1
              /\ ~Hreleased'
              /\ lastHTime' = now
              /\ lossStreak' = 0
         ELSE /\ UNCHANGED <<H, liveMats, Hreleased, lastHTime, lossStreak>>
              /\ status'.state = "seeking"]_vars

\* in a session whose Homography had gone stale, a tick has just published
\* one obtained from the squares, stamped it and reset the counter
C21_RefreshedAfterStale ==
  /\ variant = "auto"
  /\ now > StaleStart
  /\ lastHTime = now
  /\ lossStreak = 0
  /\ status = Status("squares", 0, "calibrated")
  /\ H = detectSquaresHomography(5).H
  /\ liveMats = 1

\* C22: the first processed frame, which finds no previous mask, yields no
\* detection and stores its mask; after every processed frame, whether or
\* not a Homography is published or a detection was made or accepted,
\* prevMask is that frame's mask and the previous instance has been released,
\* so that at most one exists; nothing but a processed frame (no calibration
\* tick, no calibration request) modifies prevMask.
C22_PrevMaskLifecycle ==
  [][/\ CallbackStep =>
          /\ prevMask' = <<frame>>
          /\ liveMasks' = 1
          /\ prevMask = NoMask =>
               /\ \A sens \in SensChoices, minA \in MinAreaChoices :
                    detectTransientRed(prevMask, frame, sens, minA) = NoPt
               /\ UNCHANGED <<shotsFired, totalScore, lastHitTs, landed>>
     /\ prevMask' # prevMask => CallbackStep
     /\ liveMasks' = (IF prevMask' = NoMask THEN 0 ELSE 1)
     /\ liveMasks' <= 1]_vars

\* the first frame of the first game showed red while a Homography had been
\* published since before the countdown: its mask was stored and no hit scored
C22_FirstFrameStored ==
  /\ variant = "auto"
  /\ H # NoH
  /\ lastHTime = 0
  /\ running
  /\ now = CountdownMs + 75
  /\ batch = 0
  /\ rvfcQueue = 1
  /\ prevMask = <<{1}>>
  /\ liveMasks = 1
  /\ shotsFired = 0
  /\ evLast = -1

\* C23: for a list of at least 4 corner points hullHomography uses the point
\* with minimum x+y as TL, maximum x+y as BR, minimum x-y as TR and maximum
\* x-y as BL, and for the four corners of an axis-aligned rectangle (y
\* growing downward) these are the geometric top-left, top-right,
\* bottom-right and bottom-left corners; with fewer than 4 points no
\* Homography is produced.
C23_HullCorners ==
  (Len(probe) = 2 /\ probe[1].kind = "hull") =>
    LET pts == probe[1].pts
        q == probe[2].H
        P == {pts[i] : i \in DOMAIN pts}
    IN IF Len(pts) < 4 THEN q = NoH
       ELSE /\ q[1] \in P /\ \A p \in P : q[1][1] + q[1][2] <= p[1] + p[2]
            /\ q[3] \in P /\ \A p \in P : q[3][1] + q[3][2] >= p[1] + p[2]
            /\ q[2] \in P /\ \A p \in P : q[2][1] - q[2][2] <= p[1] - p[2]
            /\ q[4] \in P /\ \A p \in P : q[4][1] - q[4][2] >= p[1] - p[2]
            /\ P = {<<0, 0>>, <<900, 0>>, <<900, 1200>>, <<0, 1200>>} =>
                 q = << <<0, 0>>, <<900, 0>>, <<900, 1200>>, <<0, 1200>> >>

\* C24: in the manual build, between any two events of any sequence of
\* calibration requests, taps, frames and Start presses: calibrationMode
\* implies that H is absent; the tap list is non-empty only while
\* calibrationMode is true; and the tap list never holds more than 3 points.
C24_ManualInvariant ==
  variant = "manual" =>
    /\ calibrationMode => H = NoH
    /\ calibPoints # <<>> => calibrationMode
    /\ Len(calibPoints) <= 3

\* a session is running on a Homography-less engine: a recalibration was
\* requested after a hit had been scored, and three corners have been tapped
C24_ThreeTapsWhileRunning ==
  /\ variant = "manual"
  /\ running
  /\ shotsFired = 1
  /\ calibrationMode
  /\ Len(calibPoints) = 3
  /\ H = NoH
  /\ liveMats = 0

\* C25: in the auto build at most one calibration interval timer is active
\* at any time, over every sequence of Start presses (also re-entrant ones
\* during the countdown), session ends and Re-calibrate requests: starting
\* calibration first cancels the timer held in calibTimer, so calibTimer
\* always refers to the only active timer.
C25_OneCalibTimer ==
  /\ Cardinality(timers) <= 1
  /\ timers = {} => calibTimer = NoTimer
  /\ timers # {} => timers = {calibTimer}
  /\ variant = "manual" => timers = {}

\* Start was pressed a second time during the countdown of the first press,
\* and one timer is active
C25_ReentrantStart ==
  /\ variant = "auto"
  /\ Len(countingDown) = 2
  /\ Cardinality(timers) = 1
  /\ calibTimer \in timers

====
